---- MODULE Spec2Model ----
(***************************************************************************)
(* Routing core of keiro (src/src/actions/mod.rs): routes folds            *)
(* execute_action over a schedule; execute_action resolves conflicts by    *)
(* recursive evasions, computes an idle pre-wait and commits a path.       *)
(*                                                                         *)
(* Numbers.  Coordinates are integers.  Times are rationals whose          *)
(* denominators divide every velocity component in use, so a time is kept  *)
(* as an integer count of 1/TimeScale ticks; every division of the code    *)
(* (distance / velocity) is then exact.                                    *)
(***************************************************************************)
EXTENDS Integers, Sequences, FiniteSets, TLC

\* ---------------------------------------------------------------- bounds
MaxSched == 2          \* longest schedule explored
MaxX == 3              \* schedule targets have x in 0..MaxX
MaxY == 1              \* schedule targets have y in 0..MaxY
MaxDuration == 1       \* schedule actions dwell 1..MaxDuration ticks
MaxEvasions == 8       \* evasions explored per schedule action

VelocityVals == {1, 2}
SafetyVals == {1, 2}

\* ---------------------------------------------------------------- numbers
Abs(n) == IF n < 0 THEN -n ELSE n
Max(a, b) == IF a >= b THEN a ELSE b
Min(a, b) == IF a <= b THEN a ELSE b

\* Ticks are split in TimeScale parts: the least number every velocity divides.
TimeScale ==
    CHOOSE n \in 1..12 :
        /\ \A v \in VelocityVals : n % v = 0
        /\ \A m \in 1..(n - 1) : \E v \in VelocityVals : m % v # 0

\* distance / velocity, as a time
Over(d, v) == (d * TimeScale) \div v

\* a number of whole ticks, as a time
Ticks(n) == n * TimeScale

\* f64::ceil on a time
Ceil(t) == ((t + TimeScale - 1) \div TimeScale) * TimeScale

IsWhole(t) == t % TimeScale = 0

\* ---------------------------------------------------------------- data.rs
Names == <<"a1", "a2", "a3">>
NumAgents == Len(Names)

Coord(x, y) == [x |-> x, y |-> y]

\* Agent::safety_x(&self, other)
safety_x(a, b) == Max(a.safety_x, b.safety_x)

Last(s) == s[Len(s)]

\* Path::to_points_st
RECURSIVE MoveSamples(_, _)
MoveSamples(moves, clock) ==
    IF moves = <<>> THEN <<>>
    ELSE <<[x |-> Head(moves).end.x, y |-> Head(moves).end.y,
            t |-> clock + Head(moves).duration]>>
         \o MoveSamples(Tail(moves), clock + Head(moves).duration)

RECURSIVE SumDurations(_)
SumDurations(moves) ==
    IF moves = <<>> THEN 0 ELSE Head(moves).duration + SumDurations(Tail(moves))

\* to_points_st whose last sample leaves out the action's duration
to_points_st_no_dwell(p) ==
    LET first == IF p.moves = <<>> THEN <<>>
                 ELSE <<[x |-> p.moves[1].start.x, y |-> p.moves[1].start.y,
                         t |-> p.t_start]>>
        clock == p.t_start + SumDurations(p.moves)
    IN  first \o MoveSamples(p.moves, p.t_start)
              \o <<[x |-> p.action.target.x, y |-> p.action.target.y,
                    t |-> clock]>>

to_points_st(p) ==
    LET first == IF p.moves = <<>> THEN <<>>
                 ELSE <<[x |-> p.moves[1].start.x, y |-> p.moves[1].start.y,
                         t |-> p.t_start]>>
        clock == p.t_start + SumDurations(p.moves)
    IN  first \o MoveSamples(p.moves, p.t_start)
              \o <<[x |-> p.action.target.x, y |-> p.action.target.y,
                    t |-> clock + p.action.duration]>>

\* ---------------------------------------------------------------- mod.rs
Some(v) == <<v>>
None == <<>>

\* agent_paths: the path list of the entry with the agent's name
agent_paths(agent, r) ==
    r[CHOOSE i \in 1..Len(r) :
        /\ r[i].agent.name = agent.name
        /\ \A j \in 1..(i - 1) : r[j].agent.name # agent.name].paths

\* position(|(a, _)| a.name == action.agent.name)
position(agent, r) ==
    CHOOSE i \in 1..Len(r) :
        /\ r[i].agent.name = agent.name
        /\ \A j \in 1..(i - 1) : r[j].agent.name # agent.name

\* find_path_2d in which the faster axis governs
find_path_2d_fastest(a, p) ==
    LET v == a.agent.velocity
        t_x == Over(Abs(a.target.x - p.x), v.x)
        t_y == Over(Abs(a.target.y - p.y), v.y)
    IN  <<[start |-> p, end |-> a.target, duration |-> Min(t_x, t_y)]>>

\* find_path_2d that walks the axes one after the other
find_path_2d_manhattan(a, p) ==
    LET v == a.agent.velocity
        t_x == Over(Abs(a.target.x - p.x), v.x)
        t_y == Over(Abs(a.target.y - p.y), v.y)
    IN  <<[start |-> p, end |-> a.target, duration |-> t_x + t_y]>>

find_path_2d(a, p) ==
    LET v == a.agent.velocity
        t_x == Over(Abs(a.target.x - p.x), v.x)
        t_y == Over(Abs(a.target.y - p.y), v.y)
    IN  <<[start |-> p, end |-> a.target, duration |-> Max(t_x, t_y)]>>

\* conflict_of with the band's edge counted in: a blocker moved onto the limit
\* conflicts again
conflict_of_nonstrict(agent, min_x, max_x, a) ==
    LET sd == safety_x(a.agent, agent)
    IN  IF a.agent.order < agent.order /\ a.target.x >= min_x - sd
        THEN Some([cause |-> a,
                   resolution |-> [kind |-> "LowerThanX", l |-> min_x - sd]])
        ELSE IF a.agent.order > agent.order /\ a.target.x <= max_x + sd
        THEN Some([cause |-> a,
                   resolution |-> [kind |-> "HigherThanX", l |-> max_x + sd]])
        ELSE None

\* conflict_of without the branch for the neighbours of higher order
conflict_of_lower_only(agent, min_x, max_x, a) ==
    LET sd == safety_x(a.agent, agent)
    IN  IF a.agent.order < agent.order /\ a.target.x > min_x - sd
        THEN Some([cause |-> a,
                   resolution |-> [kind |-> "LowerThanX", l |-> min_x - sd]])
        ELSE None

\* conflict_of with the orders compared the wrong way round
conflict_of_inverted(agent, min_x, max_x, a) ==
    LET sd == safety_x(a.agent, agent)
    IN  IF a.agent.order > agent.order /\ a.target.x > min_x - sd
        THEN Some([cause |-> a,
                   resolution |-> [kind |-> "LowerThanX", l |-> min_x - sd]])
        ELSE IF a.agent.order < agent.order /\ a.target.x < max_x + sd
        THEN Some([cause |-> a,
                   resolution |-> [kind |-> "HigherThanX", l |-> max_x + sd]])
        ELSE None

\* conflict_of with the lower edge of the band counted in
conflict_of_closed_left(agent, min_x, max_x, a) ==
    LET sd == safety_x(a.agent, agent)
    IN  IF a.agent.order < agent.order /\ a.target.x >= min_x - sd
        THEN Some([cause |-> a,
                   resolution |-> [kind |-> "LowerThanX", l |-> min_x - sd]])
        ELSE IF a.agent.order > agent.order /\ a.target.x < max_x + sd
        THEN Some([cause |-> a,
                   resolution |-> [kind |-> "HigherThanX", l |-> max_x + sd]])
        ELSE None

\* The candidate conflict of one neighbour's last action a, or None.
\* conflict_of that keeps the acting agent's own safety distance
conflict_of_own_sd(agent, min_x, max_x, a) ==
    LET sd == agent.safety_x
    IN  IF a.agent.order < agent.order /\ a.target.x > min_x - sd
        THEN Some([cause |-> a,
                   resolution |-> [kind |-> "LowerThanX", l |-> min_x - sd]])
        ELSE IF a.agent.order > agent.order /\ a.target.x < max_x + sd
        THEN Some([cause |-> a,
                   resolution |-> [kind |-> "HigherThanX", l |-> max_x + sd]])
        ELSE None

\* conflict_of with the two limits swapped
conflict_of_swapped_limits(agent, min_x, max_x, a) ==
    LET sd == safety_x(a.agent, agent)
    IN  IF a.agent.order < agent.order /\ a.target.x > min_x - sd
        THEN Some([cause |-> a,
                   resolution |-> [kind |-> "LowerThanX", l |-> max_x + sd]])
        ELSE IF a.agent.order > agent.order /\ a.target.x < max_x + sd
        THEN Some([cause |-> a,
                   resolution |-> [kind |-> "HigherThanX", l |-> min_x - sd]])
        ELSE None

conflict_of(agent, min_x, max_x, a) ==
    LET sd == safety_x(a.agent, agent)
    IN  IF a.agent.order < agent.order /\ a.target.x > min_x - sd
        THEN Some([cause |-> a,
                   resolution |-> [kind |-> "LowerThanX", l |-> min_x - sd]])
        ELSE IF a.agent.order > agent.order /\ a.target.x < max_x + sd
        THEN Some([cause |-> a,
                   resolution |-> [kind |-> "HigherThanX", l |-> max_x + sd]])
        ELSE None

\* compare that puts the smaller limit first on both sides
compare_ascending(c1, c2) ==
    IF c1.resolution.kind = "LowerThanX"
    THEN IF c2.resolution.kind = "LowerThanX"
         THEN IF c1.resolution.l < c2.resolution.l THEN "Less" ELSE "Greater"
         ELSE "Less"
    ELSE IF c2.resolution.kind = "HigherThanX"
         THEN IF c1.resolution.l < c2.resolution.l THEN "Less" ELSE "Greater"
         ELSE "Greater"

\* The comparator handed to min_by; it never answers Equal.
compare(c1, c2) ==
    IF c1.resolution.kind = "LowerThanX"
    THEN IF c2.resolution.kind = "LowerThanX"
         THEN IF c1.resolution.l > c2.resolution.l THEN "Less" ELSE "Greater"
         ELSE "Less"
    ELSE IF c2.resolution.kind = "HigherThanX"
         THEN IF c1.resolution.l < c2.resolution.l THEN "Less" ELSE "Greater"
         ELSE "Greater"

\* Iterator::min_by is a left fold of the comparator.  Two conflicts with the
\* same side and limit compare Greater both ways, which is no total order:
\* which of them the fold keeps depends on the standard library's min_by
\* (keep the later unless compare(acc, next) is not Greater; or keep the
\* earlier unless compare(next, acc) is Less).  Both folds are outcomes.
RECURSIVE min_by(_, _, _)
min_by(acc, cs, rule) ==
    IF cs = <<>> THEN acc
    ELSE LET y == Head(cs)
             keep == IF acc = None THEN Some(y)
                     ELSE IF rule = "le"
                     THEN IF compare(acc[1], y) = "Greater" THEN Some(y) ELSE acc
                     ELSE IF compare(y, acc[1]) = "Less" THEN Some(y) ELSE acc
         IN  min_by(keep, Tail(cs), rule)

RECURSIVE candidates(_, _, _, _)
candidates(agent, min_x, max_x, r) ==
    IF r = <<>> THEN <<>>
    ELSE LET c == IF Head(r).agent.name # agent.name
                  THEN conflict_of(agent, min_x, max_x, Last(Head(r).paths).action)
                  ELSE None
         IN  c \o candidates(agent, min_x, max_x, Tail(r))

RECURSIVE ReduceMin(_)
ReduceMin(xs) ==
    IF Len(xs) = 1 THEN xs[1] ELSE Min(xs[1], ReduceMin(Tail(xs)))

RECURSIVE ReduceMax(_)
ReduceMax(xs) ==
    IF Len(xs) = 1 THEN xs[1] ELSE Max(xs[1], ReduceMax(Tail(xs)))

\* first_conflict: the set of values the call can return (one, except on ties)
first_conflict(agent, path, r) ==
    LET xs == [i \in 1..Len(path) |-> path[i].end.x]
        min_x == ReduceMin(xs)
        max_x == ReduceMax(xs)
        cs == candidates(agent, min_x, max_x, r)
    IN  {min_by(None, cs, rule) : rule \in {"le", "lt"}}

\* evasion_target with the kind of a schedule action
evasion_target_scheduled(conflict) ==
    [agent |-> conflict.cause.agent,
     target |-> Coord(conflict.resolution.l, conflict.cause.target.y),
     duration |-> 0,
     type |-> "Scheduled"]

\* evasion_target that keeps the x of the cause, too
evasion_target_unmoved(conflict) ==
    [agent |-> conflict.cause.agent,
     target |-> Coord(conflict.cause.target.x, conflict.cause.target.y),
     duration |-> 0,
     type |-> "Evasive"]

\* evasion_target that sends the agent back to the y it started the run at
evasion_target_home_y(conflict) ==
    [agent |-> conflict.cause.agent,
     target |-> Coord(conflict.resolution.l, conflict.cause.agent.position.y),
     duration |-> 0,
     type |-> "Evasive"]

evasion_target(conflict) ==
    [agent |-> conflict.cause.agent,
     target |-> Coord(conflict.resolution.l, conflict.cause.target.y),
     duration |-> 0,
     type |-> "Evasive"]

\* skip_while that drops nothing
skip_while_none(ps, t0) == ps

\* ps.iter().skip_while(|p| p.t_end < t0)
RECURSIVE skip_while(_, _)
skip_while(ps, t0) ==
    IF ps = <<>> THEN <<>>
    ELSE IF Head(ps).t_end < t0 THEN skip_while(Tail(ps), t0) ELSE ps

\* ps.flat_map(|p| p.to_points_st())
RECURSIVE flat_points(_)
flat_points(ps) ==
    IF ps = <<>> THEN <<>> ELSE to_points_st(Head(ps)) \o flat_points(Tail(ps))

\* The filter on tuple_windows: is p1 inside the band around xf, on a's side?
qualifies(a, agent, xf, p1) ==
    LET sd == safety_x(a, agent)
    IN  IF a.order < agent.order THEN xf - p1.x < sd ELSE p1.x - xf < sd

\* last_window that takes the first qualifying pair instead of the last
first_window(a, agent, xf, pts) ==
    LET idx == {i \in 1..(Len(pts) - 1) : qualifies(a, agent, xf, pts[i])}
    IN  IF idx = {} THEN None
        ELSE Some(pts[CHOOSE i \in idx : \A j \in idx : j >= i])

\* .tuple_windows().filter(..).last(): the first sample of the last qualifying
\* pair of consecutive samples, or None
last_window(a, agent, xf, pts) ==
    LET idx == {i \in 1..(Len(pts) - 1) : qualifies(a, agent, xf, pts[i])}
    IN  IF idx = {} THEN None
        ELSE Some(pts[CHOOSE i \in idx : \A j \in idx : j <= i])

\* wait_for that divides the second bound by the acting agent's speed
wait_for_own_speed(a, action, xi, xf, duration, p1) ==
    LET sd == safety_x(a, action.agent)
        t1 == p1.t - Over(Abs(p1.x - xi) - sd, action.agent.velocity.x)
        t2 == p1.t + Over(sd - Abs(p1.x - xf), action.agent.velocity.x) - duration
    IN  Max(t1, t2)

\* The wait the neighbour a asks for, given its blocking sample p1
wait_for(a, action, xi, xf, duration, p1) ==
    LET sd == safety_x(a, action.agent)
        t1 == p1.t - Over(Abs(p1.x - xi) - sd, action.agent.velocity.x)
        t2 == p1.t + Over(sd - Abs(p1.x - xf), a.velocity.x) - duration
    IN  Max(t1, t2)

RECURSIVE waits(_, _, _, _, _, _)
waits(r, action, t0, xi, xf, duration) ==
    IF r = <<>> THEN <<>>
    ELSE LET a == Head(r).agent
             ps == Head(r).paths
             w == IF a.name # action.agent.name
                     /\ \E i \in 1..Len(ps) : ps[i].t_end >= t0
                  THEN last_window(a, action.agent, xf,
                                   flat_points(skip_while(ps, t0)))
                  ELSE None
         IN  (IF w = None THEN <<>>
              ELSE <<wait_for(a, action, xi, xf, duration, w[1])>>)
             \o waits(Tail(r), action, t0, xi, xf, duration)

\* idle_path without the ceiling
idle_path_no_ceil(action, path_2d, r) ==
    LET last_path == Last(agent_paths(action.agent, r))
        t0 == last_path.t_end
        duration == path_2d[1].duration
        xi == path_2d[1].start.x
        xf == path_2d[1].end.x
        ws == waits(r, action, t0, xi, xf, duration)
        s == IF ws = <<>> THEN t0 ELSE ReduceMax(ws)
        ss == Max(s, t0)
    IN  [moves |-> <<>>,
         action |-> [agent |-> action.agent,
                     target |-> last_path.action.target,
                     duration |-> ss - t0,
                     type |-> "Idle"],
         t_start |-> t0,
         t_end |-> ss]

idle_path(action, path_2d, r) ==
    LET last_path == Last(agent_paths(action.agent, r))
        t0 == last_path.t_end
        duration == path_2d[1].duration
        xi == path_2d[1].start.x
        xf == path_2d[1].end.x
        ws == waits(r, action, t0, xi, xf, duration)
        s == Ceil(IF ws = <<>> THEN t0 ELSE ReduceMax(ws))
        ss == Max(s, t0)
    IN  [moves |-> <<>>,
         action |-> [agent |-> action.agent,
                     target |-> last_path.action.target,
                     duration |-> ss - t0,
                     type |-> "Idle"],
         t_start |-> t0,
         t_end |-> ss]

\* commit with the path timed from the idle's start
commit_overlap(action, path_2d, result) ==
    LET idle == idle_path(action, path_2d, result)
        path == [moves |-> path_2d,
                 action |-> action,
                 t_start |-> idle.t_start,
                 t_end |-> idle.t_start + path_2d[1].duration + action.duration]
        v0 == agent_paths(action.agent, result)
        v1 == IF idle.t_end # idle.t_start THEN Append(v0, idle) ELSE v0
        v == Append(v1, path)
        i == position(action.agent, result)
    IN  [result EXCEPT ![i] = [agent |-> action.agent, paths |-> v]]

\* commit that pushes the idle whatever its length
commit_always_idle(action, path_2d, result) ==
    LET idle == idle_path(action, path_2d, result)
        path == [moves |-> path_2d,
                 action |-> action,
                 t_start |-> idle.t_end,
                 t_end |-> idle.t_end + path_2d[1].duration + action.duration]
        v0 == agent_paths(action.agent, result)
        v == Append(Append(v0, idle), path)
        i == position(action.agent, result)
    IN  [result EXCEPT ![i] = [agent |-> action.agent, paths |-> v]]

\* commit that removes the agent's entry and pushes the new one at the end
commit_move_last(action, path_2d, result) ==
    LET idle == idle_path(action, path_2d, result)
        path == [moves |-> path_2d,
                 action |-> action,
                 t_start |-> idle.t_end,
                 t_end |-> idle.t_end + path_2d[1].duration + action.duration]
        v0 == agent_paths(action.agent, result)
        v1 == IF idle.t_end # idle.t_start THEN Append(v0, idle) ELSE v0
        v == Append(v1, path)
        i == position(action.agent, result)
    IN  SubSeq(result, 1, i - 1) \o SubSeq(result, i + 1, Len(result))
            \o <<[agent |-> action.agent, paths |-> v]>>

\* commit that starts the agent's list afresh instead of cloning it
commit_fresh(action, path_2d, result) ==
    LET idle == idle_path(action, path_2d, result)
        path == [moves |-> path_2d,
                 action |-> action,
                 t_start |-> idle.t_end,
                 t_end |-> idle.t_end + path_2d[1].duration + action.duration]
        v1 == IF idle.t_end # idle.t_start THEN <<idle>> ELSE <<>>
        v == Append(v1, path)
        i == position(action.agent, result)
    IN  [result EXCEPT ![i] = [agent |-> action.agent, paths |-> v]]

\* commit that pushes the idle unless it ends at time 0
commit_idle_after_zero(action, path_2d, result) ==
    LET idle == idle_path(action, path_2d, result)
        path == [moves |-> path_2d,
                 action |-> action,
                 t_start |-> idle.t_end,
                 t_end |-> idle.t_end + path_2d[1].duration + action.duration]
        v0 == agent_paths(action.agent, result)
        v1 == IF idle.t_end # 0 THEN Append(v0, idle) ELSE v0
        v == Append(v1, path)
        i == position(action.agent, result)
    IN  [result EXCEPT ![i] = [agent |-> action.agent, paths |-> v]]

\* execute_action, lines 107-124: what the call returns once no conflict is left
commit(action, path_2d, result) ==
    LET idle == idle_path(action, path_2d, result)
        path == [moves |-> path_2d,
                 action |-> action,
                 t_start |-> idle.t_end,
                 t_end |-> idle.t_end + path_2d[1].duration + action.duration]
        v0 == agent_paths(action.agent, result)
        v1 == IF idle.t_end # idle.t_start THEN Append(v0, idle) ELSE v0
        v == Append(v1, path)
        i == position(action.agent, result)
    IN  [result EXCEPT ![i] = [agent |-> action.agent, paths |-> v]]

\* ---------------------------------------------------------------- inputs
\* The agents vector need not list the agents by order.
Orders == {<<1, 2, 0>>}

Agent(i, x, v, sx, o) ==
    [name |-> Names[i], position |-> Coord(x, 0), velocity |-> v,
     safety_x |-> sx, order |-> o]

Velocities == {[x |-> vx, y |-> 1] : vx \in VelocityVals}

\* Well-formed agents: unique names, positive velocities, distinct orders, and
\* initial x-positions separated by the pairwise safety distance, in order.
WellFormed(ags) ==
    \A i, j \in 1..Len(ags) :
        ags[i].order < ags[j].order =>
            ags[j].position.x - ags[i].position.x >= safety_x(ags[i], ags[j])

AgentVectors ==
    {ags \in {[i \in 1..NumAgents |-> Agent(i, xs[i], vs[i], sx[i], os[i])] :
                xs \in [1..NumAgents -> 0..MaxX],
                vs \in [1..NumAgents -> Velocities],
                sx \in [1..NumAgents -> SafetyVals],
                os \in Orders} :
        WellFormed(ags)}

\* The Scheduled actions a schedule over the agents can hold (they dwell for
\* at least a tick, as the actions of tests/actions_tests.rs arb_action do)
Scheduled(ags) ==
    {[agent |-> ags[i], target |-> Coord(x, y), duration |-> Ticks(d),
      type |-> "Scheduled"] :
        i \in 1..Len(ags), x \in 0..MaxX, y \in 0..MaxY, d \in 1..MaxDuration}

\* ---------------------------------------------------------------- state
VARIABLES
    agents,     \* routes' argument: the agents vector
    sched,      \* the schedule's actions folded so far
    result,     \* the commit log Vec<(Agent, Vec<Path>)> threaded through
    stack,      \* the active execute_action calls (see frame), innermost last
    evasions,   \* evasions issued for the current schedule action
    pc          \* "fold" while routes runs, "returned" once it returned

vars == <<agents, sched, result, stack, evasions, pc>>

\* init_log with every agent put at the origin
init_log_origin(ags) ==
    [i \in 1..Len(ags) |->
        [agent |-> ags[i],
         paths |-> <<[moves |-> <<>>,
                      action |-> [agent |-> ags[i], target |-> Coord(0, 0),
                                  duration |-> 0, type |-> "Idle"],
                      t_start |-> 0, t_end |-> 0]>>]]

\* routes, lines 66-84: one synthetic idle per agent
init_log(ags) ==
    [i \in 1..Len(ags) |->
        [agent |-> ags[i],
         paths |-> <<[moves |-> <<>>,
                      action |-> [agent |-> ags[i], target |-> ags[i].position,
                                  duration |-> 0, type |-> "Idle"],
                      t_start |-> 0, t_end |-> 0]>>]]

\* frame that plans the move from where the agent started the run
frame_from_home(action, r) ==
    [action |-> action,
     path_2d |-> find_path_2d(action, action.agent.position),
     entry |-> r,
     loops |-> 0,
     touched |-> {}]

\* execute_action, lines 96-100: entering a call.  entry, loops and touched
\* are bookkeeping of the model: the log the call was handed, the evasions its
\* loop has issued, and the agents that calls nested in it have committed for.
frame(action, r) ==
    [action |-> action,
     path_2d |-> find_path_2d(action, Last(agent_paths(action.agent, r)).action.target),
     entry |-> r,
     loops |-> 0,
     touched |-> {}]

\* The caller's frame once the innermost call has returned
returned_to(stk) ==
    LET n == Len(stk)
    IN  IF n = 1 THEN <<>>
        ELSE [SubSeq(stk, 1, n - 1) EXCEPT
                ![n - 1].touched =
                    @ \cup stk[n].touched \cup {stk[n].action.agent.name}]

Init ==
    /\ agents \in AgentVectors
    /\ sched = <<>>
    /\ result = init_log(agents)
    /\ stack = <<>>
    /\ evasions = 0
    /\ pc = "fold"

\* routes' fold takes the next action of the schedule and calls execute_action
Call ==
    /\ pc = "fold" /\ stack = <<>> /\ Len(sched) < MaxSched
    /\ \E a \in Scheduled(agents) :
        /\ sched' = Append(sched, a)
        /\ stack' = <<frame(a, result)>>
    /\ evasions' = 0
    /\ UNCHANGED <<agents, result, pc>>

\* execute_action's loop finds a conflict and calls itself on the evasion
Evade ==
    /\ pc = "fold" /\ stack # <<>> /\ evasions < MaxEvasions
    /\ \E c \in first_conflict(Last(stack).action.agent, Last(stack).path_2d, result) :
        /\ c # None
        /\ stack' = Append([stack EXCEPT ![Len(stack)].loops = @ + 1],
                            frame(evasion_target(c[1]), result))
    /\ evasions' = evasions + 1
    /\ UNCHANGED <<agents, sched, result, pc>>

\* execute_action's loop finds no conflict: idle, path, commit, return
Commit ==
    /\ pc = "fold" /\ stack # <<>>
    /\ None \in first_conflict(Last(stack).action.agent, Last(stack).path_2d, result)
    /\ result' = commit(Last(stack).action, Last(stack).path_2d, result)
    /\ stack' = returned_to(stack)
    /\ UNCHANGED <<agents, sched, evasions, pc>>

\* the schedule is exhausted: routes returns Routing { routes: r }
Return ==
    /\ pc = "fold" /\ stack = <<>>
    /\ pc' = "returned"
    /\ UNCHANGED <<agents, sched, result, stack, evasions>>

Next == Call \/ Evade \/ Commit \/ Return

Spec == Init /\ [][Next]_vars

\* ---------------------------------------------------------------- timelines
\* The samples of an agent's whole route
timeline(e) == flat_points(e.paths)

\* tests/actions_tests.rs interpolate: the x-position at time t of the agent a
\* with samples pts, times TimeScale (the agent runs at velocity.x towards the
\* next sample and waits there).  At or after the last sample it is at rest.
interpolate(t, a, pts) ==
    IF \A i \in 1..Len(pts) : pts[i].t <= t THEN Last(pts).x * TimeScale
    ELSE LET i == CHOOSE k \in 1..Len(pts) :
                      /\ t < pts[k].t
                      /\ \A j \in 1..(k - 1) : pts[j].t <= t
             p1 == pts[i - 1]
             p2 == pts[i]
             sgn_vx == IF p2.x > p1.x THEN 1 ELSE IF p2.x < p1.x THEN -1 ELSE 0
             max_dx == Abs(p1.x - p2.x) * TimeScale
         IN  p1.x * TimeScale + sgn_vx * Min(a.velocity.x * (t - p1.t), max_dx)

\* The times both routes cover
covered(e1, e2) == 0..Min(Last(timeline(e1)).t, Last(timeline(e2)).t)

\* spec.md 4.2 reads the samples as piecewise linear instead: the x-position
\* at time t as a fraction <<numerator, denominator>>.
linear(t, pts) ==
    IF \A i \in 1..Len(pts) : pts[i].t <= t THEN <<Last(pts).x, 1>>
    ELSE LET i == CHOOSE k \in 1..Len(pts) :
                      /\ t < pts[k].t
                      /\ \A j \in 1..(k - 1) : pts[j].t <= t
             p1 == pts[i - 1]
             p2 == pts[i]
         IN  <<p1.x * (p2.t - p1.t) + (p2.x - p1.x) * (t - p1.t), p2.t - p1.t>>

\* x of the higher agent minus x of the lower one, at time t, as an integer
\* multiple (by scale > 0) under either reading
gap_run(t, lo, hi) ==
    [d |-> interpolate(t, hi.agent, timeline(hi)) - interpolate(t, lo.agent, timeline(lo)),
     scale |-> TimeScale]

gap_linear(t, lo, hi) ==
    LET a == linear(t, timeline(lo))
        b == linear(t, timeline(hi))
    IN  [d |-> b[1] * a[2] - a[1] * b[2], scale |-> a[2] * b[2]]

\* Both readings agree on the times to look at: the gap is piecewise linear in
\* t with its bends on the 1/TimeScale grid.
Separated(log, gap(_, _, _)) ==
    \A i, j \in 1..Len(log) :
        log[i].agent.order < log[j].agent.order =>
            \A t \in covered(log[i], log[j]) :
                LET g == gap(t, log[i], log[j])
                IN  g.d >= safety_x(log[i].agent, log[j].agent) * g.scale

\* C1: in the routing routes returns, any two agents keep their pairwise
\* safety distance in x, in order, at every time both routes cover (the claim
\* is granted whichever way positions between samples are read).
C1_Safety ==
    pc = "returned" => Separated(result, gap_run) \/ Separated(result, gap_linear)

\* ---------------------------------------------------------------- C2
Sign(n) == IF n > 0 THEN 1 ELSE IF n < 0 THEN -1 ELSE 0

Ordered(log, gap(_, _, _)) ==
    \A i, j \in 1..Len(log) :
        log[i].agent.order < log[j].agent.order =>
            \A t \in covered(log[i], log[j]) :
                /\ Sign(gap(t, log[i], log[j]).d) = 1
                /\ Sign(- gap(t, log[i], log[j]).d) = -1

\* C2: in the routing routes returns, the sign of xA(t) - xB(t) is that of
\* A.order - B.order at every time both routes cover: no overtaking, no
\* coinciding (granted whichever way positions between samples are read).
C2_OrderPreserved ==
    pc = "returned" => Ordered(result, gap_run) \/ Ordered(result, gap_linear)

\* ---------------------------------------------------------------- C3
RECURSIVE SelectSeq2(_, _, _)
SelectSeq2(sq, name, kind) ==
    IF sq = <<>> THEN <<>>
    ELSE (IF Head(sq).agent.name = name /\ Head(sq).type = kind
          THEN <<Head(sq)>> ELSE <<>>)
         \o SelectSeq2(Tail(sq), name, kind)

actions_of(paths) == [k \in 1..Len(paths) |-> paths[k].action]

\* C3: each agent's Scheduled paths carry, one for one and in schedule order,
\* the agent's actions of the schedule (same target, duration and kind).
C3_ScheduleFaithful ==
    pc = "returned" =>
        \A i \in 1..Len(result) :
            SelectSeq2(actions_of(result[i].paths), result[i].agent.name, "Scheduled")
            = SelectSeq2(sched, result[i].agent.name, "Scheduled")

HasKind(paths, kind) == \E k \in 1..Len(paths) : paths[k].action.type = kind

\* routes has returned; one agent served two actions of the schedule, waiting
\* before the second, and pushed another agent aside
C3_Witness ==
    /\ pc = "returned"
    /\ \E i \in 1..Len(result) :
        /\ Len(SelectSeq2(sched, result[i].agent.name, "Scheduled")) = 2
        /\ \E k \in 2..Len(result[i].paths) : result[i].paths[k].action.type = "Idle"
    /\ \E i \in 1..Len(result) : HasKind(result[i].paths, "Evasive")

\* ---------------------------------------------------------------- C4
\* C4: at any point of the run every agent's paths are contiguous in time
\* (paths[i].t_end = paths[i+1].t_start) and no path ends before it starts.
C4_TimeContiguous ==
    \A i \in 1..Len(result) :
        LET ps == result[i].paths
        IN  /\ \A k \in 1..Len(ps) : ps[k].t_end >= ps[k].t_start
            /\ \A k \in 1..(Len(ps) - 1) : ps[k].t_end = ps[k + 1].t_start

\* in the middle of a nested evasion, an agent's route already holds a wait
\* (an Idle after the synthetic one) and an Evasive path
C4_Witness ==
    /\ Len(stack) >= 2
    /\ \E i \in 1..Len(result) :
        /\ HasKind(result[i].paths, "Evasive")
        /\ \E k \in 2..Len(result[i].paths) :
            result[i].paths[k].action.type = "Idle"

\* ---------------------------------------------------------------- C6
\* C6 as claimed: every Idle path of the returned routing lasts a whole,
\* non-negative number of ticks.
C6_IdleWholeTicks ==
    pc = "returned" =>
        \A i \in 1..Len(result) : \A k \in 1..Len(result[i].paths) :
            LET p == result[i].paths[k]
            IN  p.action.type = "Idle" =>
                    /\ p.t_end - p.t_start >= 0
                    /\ IsWhole(p.t_end - p.t_start)

\* C6 amended: every Idle path of the returned routing ends on a whole tick and
\* does not end before it starts (its length is whole only if it starts on a
\* whole tick, too).
C6_IdleEndsOnTick ==
    pc = "returned" =>
        \A i \in 1..Len(result) : \A k \in 1..Len(result[i].paths) :
            LET p == result[i].paths[k]
            IN  p.action.type = "Idle" =>
                    /\ p.t_end - p.t_start >= 0
                    /\ IsWhole(p.t_end)

\* a returned routing with an Idle that starts off the tick grid
C6_Witness ==
    /\ pc = "returned"
    /\ \E i \in 1..Len(result) : \E k \in 1..Len(result[i].paths) :
        /\ result[i].paths[k].action.type = "Idle"
        /\ ~IsWhole(result[i].paths[k].t_start)
        /\ result[i].paths[k].t_end > result[i].paths[k].t_start

\* ---------------------------------------------------------------- C8
\* C8: routes on the empty schedule returns one path per input agent: an Idle
\* without moves at the agent's initial position, duration 0, t_start = t_end = 0.
C8_EmptySchedule ==
    (pc = "returned" /\ sched = <<>>) =>
        /\ Len(result) = Len(agents)
        /\ \A i \in 1..Len(agents) :
            /\ result[i].agent = agents[i]
            /\ Len(result[i].paths) = 1
            /\ result[i].paths[1].moves = <<>>
            /\ result[i].paths[1].action.type = "Idle"
            /\ result[i].paths[1].action.target = agents[i].position
            /\ result[i].paths[1].action.duration = 0
            /\ result[i].paths[1].t_start = 0
            /\ result[i].paths[1].t_end = 0

C8_Witness == pc = "returned" /\ sched = <<>>

\* ---------------------------------------------------------------- C9
\* C9: the returned routing has one entry per input agent, in the order of the
\* agents vector; each path list begins with the synthetic Idle at the initial
\* position and is ordered by t_start.
C9_OutputShape ==
    pc = "returned" =>
        /\ Len(result) = Len(agents)
        /\ \A i \in 1..Len(agents) :
            LET ps == result[i].paths
            IN  /\ result[i].agent.name = agents[i].name
                /\ Len(ps) >= 1
                /\ ps[1].action.type = "Idle" /\ ps[1].moves = <<>>
                /\ ps[1].action.target = agents[i].position
                /\ ps[1].t_start = 0 /\ ps[1].t_end = 0
                /\ \A k \in 1..(Len(ps) - 1) : ps[k].t_start <= ps[k + 1].t_start

\* a routing returned for a full schedule, with evasions and waits in it
C9_Witness ==
    /\ pc = "returned" /\ Len(sched) = MaxSched
    /\ \E i \in 1..Len(result) : HasKind(result[i].paths, "Evasive")
    /\ \E i \in 1..Len(result) : \E k \in 2..Len(result[i].paths) :
        result[i].paths[k].action.type = "Idle"

\* ---------------------------------------------------------------- C7
IsPrefix(s1, s2) == Len(s1) <= Len(s2) /\ SubSeq(s2, 1, Len(s1)) = s1

\* A step in which the innermost execute_action commits and returns
Returns == stack # <<>> /\ Len(stack') < Len(stack)

\* The paths the entry of the named agent gained between two logs
gained(name, r0, r1) ==
    LET i == CHOOSE k \in 1..Len(r0) : r0[k].agent.name = name
    IN  SubSeq(r1[i].paths, Len(r0[i].paths) + 1, Len(r1[i].paths))

C10_AppendOnly ==
    [][/\ \A i \in 1..Len(result) :
            /\ result'[i].agent.name = result[i].agent.name
            /\ IsPrefix(result[i].paths, result'[i].paths)
       /\ Returns =>
            LET top == Last(stack)
                name == top.action.agent.name
                new == gained(name, top.entry, result')
            IN  /\ \A i \in 1..Len(result) :
                    IsPrefix(top.entry[i].paths, result'[i].paths)
                /\ Len(new) \in {1, 2}
                /\ Last(new).action = top.action
                /\ Len(new) = 2 => new[1].action.type = "Idle"
                /\ \A i \in 1..Len(result) :
                    result[i].agent.name \notin (top.touched \cup {name})
                        => result'[i] = top.entry[i]]_vars

\* a call is about to return to a caller after nested calls committed for two
\* other agents
C10_Witness ==
    /\ Len(stack) >= 1
    /\ Cardinality(Last(stack).touched) = 2

\* ---------------------------------------------------------------- C5
\* Every step of a run adds to the schedule folded, to the evasions issued or
\* to the paths committed, so no run of the model repeats a state; a run that
\* does not end in routes' return ends where the loop of execute_action still
\* finds a conflict after MaxEvasions evasions.
\* C5: routes terminates: a run is never left with a conflict to resolve and
\* its evasions used up; until routes has returned there is a next step.
CanStep ==
    \/ pc = "fold" /\ stack = <<>>
    \/ /\ pc = "fold" /\ stack # <<>>
       /\ LET fc == first_conflict(Last(stack).action.agent, Last(stack).path_2d, result)
          IN  None \in fc \/ (evasions < MaxEvasions /\ fc # {None})

C5_Terminates == pc = "returned" \/ CanStep

\* a schedule action has been served after three evasions
C5_Witness == pc = "returned" /\ evasions = 3

\* ---------------------------------------------------------------- scenarios
\* The agents of spec.md's concrete scenarios: A1 and A2 (and the A3 of the
\* three-agent line-up), all with velocity (2, 1) and safety_x 10.
ScenarioAgent(i, x, o) ==
    [name |-> Names[i], position |-> Coord(x, 10), velocity |-> [x |-> 2, y |-> 1],
     safety_x |-> 10, order |-> o]

A1 == ScenarioAgent(1, 10, 0)
A2 == ScenarioAgent(2, 30, 1)
A3 == ScenarioAgent(3, 50, 2)

ScenarioVectors == {<<A1, A2>>, <<A1, A2, A3>>}

ScenarioAction(a, x) ==
    [agent |-> a, target |-> Coord(x, 20), duration |-> Ticks(6), type |-> "Scheduled"]

\* The schedule actions of the scenarios: a dwell of 6 at (5,20), (20,20) or
\* (40,20), for any of the agents
ScenarioActions(ags) ==
    {ScenarioAction(ags[i], x) : i \in 1..Len(ags), x \in {5, 20, 40}}

InitScenario ==
    /\ agents \in ScenarioVectors
    /\ sched = <<>>
    /\ result = init_log(agents)
    /\ stack = <<>>
    /\ evasions = 0
    /\ pc = "fold"

CallScenario ==
    /\ pc = "fold" /\ stack = <<>> /\ Len(sched) < MaxSched
    /\ \E a \in ScenarioActions(agents) :
        /\ sched' = Append(sched, a)
        /\ stack' = <<frame(a, result)>>
    /\ evasions' = 0
    /\ UNCHANGED <<agents, result, pc>>

NextScenario == CallScenario \/ Evade \/ Commit \/ Return

SpecScenario == InitScenario /\ [][NextScenario]_vars

\* ---------------------------------------------------------------- C11
InitialIdle(a) ==
    [moves |-> <<>>,
     action |-> [agent |-> a, target |-> a.position, duration |-> 0, type |-> "Idle"],
     t_start |-> 0, t_end |-> 0]

\* C11 (Scenario A): for A1, A2 and the schedule [A1 -> (20,20), duration 6],
\* routes returns for A1 the initial idle and one path, the move
\* (10,10)->(20,20) of duration 10 with dwell 6 from t = 0 to t = 16, with no
\* Idle and no Evasive path, and for A2 its initial idle alone.
C11_ScenarioA ==
    (pc = "returned" /\ agents = <<A1, A2>> /\ sched = <<ScenarioAction(A1, 20)>>) =>
        /\ result[1].agent = A1
        /\ result[1].paths =
            <<InitialIdle(A1),
              [moves |-> <<[start |-> Coord(10, 10), end |-> Coord(20, 20),
                            duration |-> Ticks(10)]>>,
               action |-> ScenarioAction(A1, 20),
               t_start |-> 0, t_end |-> Ticks(16)]>>
        /\ result[2].agent = A2
        /\ result[2].paths = <<InitialIdle(A2)>>

\* routes has returned on Scenario A
C11_Witness ==
    /\ pc = "returned" /\ agents = <<A1, A2>>
    /\ sched = <<ScenarioAction(A1, 20)>>
    /\ Len(result[1].paths) = 2


\* ---------------------------------------------------------------- C12
ScenarioB ==
    /\ pc = "returned" /\ agents = <<A1, A2>>
    /\ sched = <<ScenarioAction(A2, 5), ScenarioAction(A1, 20)>>

\* The index of the first path of the given kind
IndexOf(paths, kind) ==
    CHOOSE k \in 1..Len(paths) :
        /\ paths[k].action.type = kind
        /\ \A j \in 1..(k - 1) : paths[j].action.type # kind

\* The entry's x-position at time t is at least x, under either reading
AtLeast(e, t, x) ==
    \/ interpolate(t, e.agent, timeline(e)) >= x * TimeScale
    \/ linear(t, timeline(e))[1] >= x * linear(t, timeline(e))[2]

\* C12 as claimed (Scenario B): for the schedule [A2 -> (5,20), A1 -> (20,20)],
\* A1's Scheduled path comes right after an Idle path of positive length, and
\* it does not start before A2 is at x >= 30, out of the band around x = 20.
C12_ScenarioB ==
    ScenarioB =>
        LET ps == result[1].paths
            k == IndexOf(ps, "Scheduled")
        IN  /\ ps[k - 1].action.type = "Idle"
            /\ ps[k - 1].t_end > ps[k - 1].t_start
            /\ AtLeast(result[2], ps[k].t_start, 30)

\* C12 amended (Scenario B): A1's Scheduled path comes right after an Idle
\* path of positive length; it does not start before A2's Evasive move to
\* x = 30 starts, and its move does not end before A2 is at x >= 30 (A1 follows
\* A2 at the safety distance instead of waiting for the band to be clear).
C12_ScenarioBFollows ==
    ScenarioB =>
        LET ps == result[1].paths
            k == IndexOf(ps, "Scheduled")
            qs == result[2].paths
            e == IndexOf(qs, "Evasive")
        IN  /\ ps[k - 1].action.type = "Idle"
            /\ ps[k - 1].t_end > ps[k - 1].t_start
            /\ qs[e].action.target.x = 30
            /\ ps[k].t_start >= qs[e].t_start
            /\ ~AtLeast(result[2], ps[k].t_start, 30)
            /\ AtLeast(result[2], ps[k].t_start + ps[k].moves[1].duration, 30)
            /\ Separated(result, gap_run)

\* routes has returned on Scenario B: A1 was evaded, waited and moved; A2
\* moved and was evaded
C12_Witness ==
    /\ ScenarioB
    /\ HasKind(result[1].paths, "Evasive") /\ HasKind(result[1].paths, "Scheduled")
    /\ HasKind(result[2].paths, "Evasive") /\ HasKind(result[2].paths, "Scheduled")

\* ---------------------------------------------------------------- C18
\* The side on which the neighbour B, last committed at x = b, blocks the
\* request of A to end at x = X, as spec.md 4.3 words it; "none" if it does not
Side(A, X, B, b) ==
    LET sd == Max(A.safety_x, B.safety_x)
    IN  IF B.order < A.order /\ b > X - sd THEN "LowerThanX"
        ELSE IF B.order > A.order /\ b < X + sd THEN "HigherThanX"
        ELSE "none"

last_x(e) == Last(e.paths).action.target.x

\* The neighbours (indices of the log) that block A's request to end at X
conflicting(A, X, r) ==
    {i \in 1..Len(r) :
        r[i].agent.name # A.name /\ Side(A, X, r[i].agent, last_x(r[i])) # "none"}

\* A step in which an evasion returns to the loop that issued it
EvasionReturns == Returns /\ Len(stack) >= 2

\* The evasion that returns has left the blocker on the limit and the
\* caller's conflict set strictly smaller, with no newcomer
Reduced ==
    LET caller == stack[Len(stack) - 1]
        ev == Last(stack)
        A == caller.action.agent
        X == caller.path_2d[1].end.x
        before == conflicting(A, X, ev.entry)
        after == conflicting(A, X, result')
        b == position(ev.action.agent, result)
    IN  /\ last_x(result'[b]) = ev.action.target.x
        /\ b \in before
        /\ b \notin after
        /\ after \subseteq before
        /\ Cardinality(after) < Cardinality(before)

\* C18: when the evasion of blocker B returns to the loop of A's request, B's
\* last committed target x is the resolution limit, B no longer conflicts, no
\* neighbour has become conflicting, and fewer neighbours conflict than before.
C18_ConflictSetReduced == [][EvasionReturns => Reduced]_vars

\* ---------------------------------------------------------------- C13
\* An agent no entry of the agents vector is named after
Stranger ==
    [name |-> "stranger", position |-> Coord(0, 0), velocity |-> [x |-> 1, y |-> 1],
     safety_x |-> 1, order |-> NumAgents]

\* r.iter().find(|(a, _)| a.name == agent.name) is Some
found(agent, r) == \E i \in 1..Len(r) : r[i].agent.name = agent.name

\* unwrap of a None that goes on with the fold, the action skipped
unwrap_none_skip == "fold"

\* Option::unwrap on None panics: where routes is after it
unwrap_none == "panicked"

InitMissing ==
    /\ agents \in AgentVectors
    /\ sched = <<>>
    /\ result = init_log(agents)
    /\ stack = <<>>
    /\ evasions = 0
    /\ pc = "fold"

\* routes' fold takes the next action, of a listed agent or of the stranger;
\* execute_action starts with agent_paths, which unwraps the entry it finds
CallMissing ==
    /\ pc = "fold" /\ stack = <<>> /\ Len(sched) < MaxSched
    /\ \E a \in Scheduled(agents) \cup Scheduled(<<Stranger>>) :
        /\ sched' = Append(sched, a)
        /\ IF found(a.agent, result)
           THEN stack' = <<frame(a, result)>> /\ pc' = pc
           ELSE stack' = <<>> /\ pc' = unwrap_none
    /\ evasions' = 0
    /\ UNCHANGED <<agents, result>>

NextMissing == CallMissing \/ Evade \/ Commit \/ Return

SpecMissing == InitMissing /\ [][NextMissing]_vars

names_of(r) == [i \in 1..Len(r) |-> r[i].agent.name]

\* C13: once the schedule has brought an action of an agent the agents vector
\* does not list, routes has panicked at that action: it is the last one
\* taken, no call is active, nothing is returned, and the log has an entry for
\* the listed agents only.
C13_MissingAgentAborts ==
    /\ names_of(result) = [i \in 1..Len(agents) |-> agents[i].name]
    /\ \A k \in 1..Len(sched) :
        ~found(sched[k].agent, init_log(agents)) =>
            /\ pc = "panicked"
            /\ k = Len(sched)
            /\ stack = <<>>
    /\ pc = "panicked" => ~found(Last(sched).agent, init_log(agents))

\* routes served one action, with an evasion, and panicked at the stranger's
C13_Witness ==
    /\ pc = "panicked" /\ Len(sched) = 2
    /\ \E i \in 1..Len(result) : HasKind(result[i].paths, "Evasive")

\* ---------------------------------------------------------------- C15
\* The resolution spec.md 4.3 gives for a blocking neighbour
Resolution(A, X, B, b) ==
    LET sd == Max(A.safety_x, B.safety_x)
    IN  IF Side(A, X, B, b) = "LowerThanX"
        THEN [kind |-> "LowerThanX", l |-> X - sd]
        ELSE [kind |-> "HigherThanX", l |-> X + sd]

\* The conflicts of the request of A to end at X, in the words of spec.md 4.3
Conflicts(A, X, r) ==
    {[cause |-> Last(r[i].paths).action,
      resolution |-> Resolution(A, X, r[i].agent, last_x(r[i]))] :
        i \in conflicting(A, X, r)}

\* C15: in first_conflict for the acting agent A and the end x = X, the
\* neighbours taken for conflicts are those B (other than A) of lower order
\* with b > X - sd, to resolve by LowerThanX(X - sd), and those of higher order
\* with b < X + sd, to resolve by HigherThanX(X + sd), for b the x of B's last
\* committed target and sd the greater safety_x of the two; a neighbour on the
\* boundary is none, and neither is A.
C15_ConflictPredicate ==
    stack # <<>> =>
        LET A == Last(stack).action.agent
            X == Last(stack).path_2d[1].end.x
            cs == candidates(A, X, X, result)
            fc == first_conflict(A, Last(stack).path_2d, result)
        IN  /\ {cs[k] : k \in 1..Len(cs)} = Conflicts(A, X, result)
            /\ Len(cs) = Cardinality(conflicting(A, X, result))
            /\ \A c \in fc :
                IF c = None THEN Conflicts(A, X, result) = {}
                ELSE c[1] \in Conflicts(A, X, result) /\ c[1].cause.agent.name # A.name

\* a request with one neighbour inside the band and another exactly on its
\* edge, by a safety distance that is not the acting agent's own
C15_Witness ==
    /\ stack # <<>>
    /\ LET A == Last(stack).action.agent
           X == Last(stack).path_2d[1].end.x
       IN  /\ conflicting(A, X, result) # {}
           /\ \E i \in 1..Len(result) :
                /\ result[i].agent.name # A.name
                /\ result[i].agent.safety_x > A.safety_x
                /\ \/ /\ result[i].agent.order < A.order
                      /\ last_x(result[i]) = X - result[i].agent.safety_x
                   \/ /\ result[i].agent.order > A.order
                      /\ last_x(result[i]) = X + result[i].agent.safety_x

\* ---------------------------------------------------------------- C16
\* routes does not validate its agents: any vector is an input, also one whose
\* positions contradict the orders or stand closer than the safety distance.
AnyAgentVectors ==
    {[i \in 1..NumAgents |-> Agent(i, xs[i], [x |-> 1, y |-> 1], sx[i], os[i])] :
        xs \in [1..NumAgents -> 0..MaxX],
        sx \in [1..NumAgents -> SafetyVals],
        os \in Orders}

InitAnyAgents ==
    /\ agents \in AnyAgentVectors
    /\ sched = <<>>
    /\ result = init_log(agents)
    /\ stack = <<>>
    /\ evasions = 0
    /\ pc = "fold"

\* routes' fold on a schedule of one action
CallOnce ==
    /\ pc = "fold" /\ stack = <<>> /\ sched = <<>>
    /\ \E a \in Scheduled(agents) :
        /\ sched' = Append(sched, a)
        /\ stack' = <<frame(a, result)>>
    /\ evasions' = 0
    /\ UNCHANGED <<agents, result, pc>>

NextAnyAgents == CallOnce \/ Evade \/ Commit \/ Return

SpecAnyAgents == InitAnyAgents /\ [][NextAnyAgents]_vars

\* The order of spec.md 4.3: r1 comes no later than r2
Precedes(r1, r2) ==
    IF r1.kind = "LowerThanX"
    THEN r2.kind = "HigherThanX" \/ r1.l >= r2.l
    ELSE r2.kind = "HigherThanX" /\ r1.l <= r2.l

\* C16: of several conflicting neighbours first_conflict returns one, a least
\* one in the order where LowerThanX precedes HigherThanX, the greater limit
\* comes first among LowerThanX and the smaller among HigherThanX; it returns
\* a HigherThanX only when there is no LowerThanX.
C16_ConflictSelection ==
    stack # <<>> =>
        LET A == Last(stack).action.agent
            X == Last(stack).path_2d[1].end.x
            all == Conflicts(A, X, result)
        IN  \A c \in first_conflict(A, Last(stack).path_2d, result) :
                c # None =>
                    /\ c[1] \in all
                    /\ \A d \in all : Precedes(c[1].resolution, d.resolution)
                    /\ c[1].resolution.kind = "HigherThanX" =>
                        \A d \in all : d.resolution.kind = "HigherThanX"

\* a request blocked from both sides at once
C16_Witness ==
    /\ stack # <<>>
    /\ LET A == Last(stack).action.agent
           X == Last(stack).path_2d[1].end.x
           all == Conflicts(A, X, result)
       IN  \E c, d \in all :
                /\ c.resolution.kind = "LowerThanX"
                /\ d.resolution.kind = "HigherThanX"

\* ---------------------------------------------------------------- C17
\* C17: every evasion issued is, for a conflict of the issuing request, the
\* action of the conflict's causing agent to (the resolution's limit, the y of
\* the cause's last committed target), of duration 0 and kind Evasive; every
\* Evasive path committed keeps its y from start to end and dwells for 0.
C17_EvasionSynthesis ==
    /\ \A k \in 2..Len(stack) :
        LET A == stack[k - 1].action.agent
            X == stack[k - 1].path_2d[1].end.x
        IN  \E c \in Conflicts(A, X, stack[k].entry) :
                stack[k].action =
                    [agent |-> c.cause.agent,
                     target |-> Coord(c.resolution.l, c.cause.target.y),
                     duration |-> 0,
                     type |-> "Evasive"]
    /\ \A i \in 1..Len(result) : \A k \in 1..Len(result[i].paths) :
        LET p == result[i].paths[k]
        IN  p.action.type = "Evasive" =>
                /\ p.action.duration = 0
                /\ Len(p.moves) = 1
                /\ p.moves[1].start.y = p.moves[1].end.y
                /\ p.moves[1].end = p.action.target
                /\ p.t_end = p.t_start + p.moves[1].duration

\* an agent that had moved off its initial y has been evaded, while a further
\* evasion is under way
C17_Witness ==
    /\ Len(stack) >= 2
    /\ \E i \in 1..Len(result) : \E k \in 1..Len(result[i].paths) :
        /\ result[i].paths[k].action.type = "Evasive"
        /\ result[i].paths[k].action.target.y # result[i].agent.position.y

\* an evasion has returned to a loop that started with two blockers and still
\* has one to evade
C18_Witness ==
    /\ stack # <<>>
    /\ Last(stack).touched # {}
    /\ LET top == Last(stack)
           A == top.action.agent
           X == top.path_2d[1].end.x
       IN  /\ Cardinality(conflicting(A, X, top.entry)) = 2
           /\ Cardinality(conflicting(A, X, result)) = 1

\* ---------------------------------------------------------------- C19
\* C19: a call commits its path only when no neighbour conflicts with its
\* request any more; at that time the requests pending below it on the call
\* stack have committed nothing, and every agent evaded within the call has
\* its Evasive path in the log already: in a cascade A, B, C the path of C is
\* appended before that of B, and that of B before A's own.
C19_CommitOrder ==
    [][Returns =>
        LET n == Len(stack)
            top == stack[n]
        IN  /\ conflicting(top.action.agent, top.path_2d[1].end.x, result) = {}
            /\ \A k \in 1..(n - 1) :
                gained(stack[k].action.agent.name, stack[k].entry, result') = <<>>
            /\ Last(gained(top.action.agent.name, result, result')).action = top.action
            /\ \A name \in top.touched :
                LET new == gained(name, top.entry, result)
                IN  new # <<>> /\ Last(new).action.type = "Evasive"]_vars

\* the schedule's action is about to be committed after a cascade: its one
\* evasion had to evade a third agent first
C19_Witness ==
    /\ Len(stack) = 1
    /\ Last(stack).loops = 1
    /\ Cardinality(Last(stack).touched) = 2
    /\ conflicting(Last(stack).action.agent, Last(stack).path_2d[1].end.x, result) = {}

\* ---------------------------------------------------------------- C20
\* C20: on well-formed input no agent has two calls of execute_action active
\* at once (the agent a call acts for is not evaded while the call is
\* pending), so the calls nest no deeper than there are agents.
C20_DepthBound ==
    /\ \A j, k \in 1..Len(stack) :
        j # k => stack[j].action.agent.name # stack[k].action.agent.name
    /\ Len(stack) <= Len(agents)

\* every agent has a call active: a cascade through all of them
C20_Witness ==
    /\ Len(stack) = Len(agents)
    /\ stack[1].action.type = "Scheduled"
    /\ \A k \in 2..Len(stack) : stack[k].action.type = "Evasive"

\* ---------------------------------------------------------------- C21
\* C21: in every agent's route a path with moves starts its first move at the
\* target of the path committed before it and ends its last move at its own
\* target, and an Idle path has the target of the path before it (the move is
\* planned before the evasions of the call run, and still fits).
C21_SpatialContinuity ==
    \A i \in 1..Len(result) : \A k \in 2..Len(result[i].paths) :
        LET p == result[i].paths[k]
            q == result[i].paths[k - 1]
        IN  /\ p.moves # <<>> =>
                /\ p.moves[1].start = q.action.target
                /\ Last(p.moves).end = p.action.target
            /\ p.action.type = "Idle" =>
                /\ p.moves = <<>>
                /\ p.action.target = q.action.target

\* an agent was evaded, waited and then moved on; its last move was planned
\* before two evasions of the same call were committed
C21_Witness ==
    /\ stack = <<>> /\ evasions = 2
    /\ \E i \in 1..Len(result) : \E k \in 2..(Len(result[i].paths) - 2) :
        /\ result[i].paths[k].action.type = "Evasive"
        /\ result[i].paths[k + 1].action.type = "Idle"
        /\ result[i].paths[k + 2].action.type = "Scheduled"
        /\ result[i].paths[k + 2].action.target # result[i].paths[k].action.target

\* ---------------------------------------------------------------- C22
\* The samples of an entry a request with previous t_end = t0 looks at: those
\* of its paths that end at t0 or later
SamplesFrom(e, t0) ==
    LET ends_later(q) == q.t_end >= t0
    IN  flat_points(SelectSeq(e.paths, ends_later))

\* Indices of the qualifying sample pairs of B for a move of A ending at xf
QualifyingPairs(A, xf, B, pts) ==
    {k \in 1..(Len(pts) - 1) :
        IF B.order < A.order
        THEN xf - pts[k].x < Max(A.safety_x, B.safety_x)
        ELSE pts[k].x - xf < Max(A.safety_x, B.safety_x)}

\* max(t1, t2) for the first sample of B's last qualifying pair
BlockedUntil(A, xi, xf, tau, B, pts) ==
    LET ks == QualifyingPairs(A, xf, B, pts)
        p1 == pts[CHOOSE k \in ks : \A j \in ks : j <= k]
        sd == Max(A.safety_x, B.safety_x)
        t1 == p1.t - Over(Abs(p1.x - xi) - sd, A.velocity.x)
        t2 == p1.t + Over(sd - Abs(p1.x - xf), B.velocity.x) - tau
    IN  IF t1 >= t2 THEN t1 ELSE t2

\* The idle of the formula, for a request of A on the log r
Delta(A, xi, xf, tau, r) ==
    LET t0 == Last(agent_paths(A, r)).t_end
        Bs == {i \in 1..Len(r) :
                /\ r[i].agent.name # A.name
                /\ QualifyingPairs(A, xf, r[i].agent, SamplesFrom(r[i], t0)) # {}}
        ts == {BlockedUntil(A, xi, xf, tau, r[i].agent, SamplesFrom(r[i], t0)) :
                i \in Bs}
        M == IF Bs = {} THEN t0 ELSE CHOOSE t \in ts : \A u \in ts : u <= t
    IN  Max(Ceil(M), t0) - t0

\* C22: the requested path of every call starts at the agent's previous t_end
\* plus max(ceil(M), t0) - t0, with M the maximum over the other agents that
\* have a qualifying sample pair of max(t1, t2), and t0 when there is none;
\* that idle is never negative.
C22_IdleFormula ==
    [][Returns =>
        LET top == Last(stack)
            t0 == Last(agent_paths(top.action.agent, result)).t_end
            d == Delta(top.action.agent, top.path_2d[1].start.x,
                       top.path_2d[1].end.x, top.path_2d[1].duration, result)
            new == gained(top.action.agent.name, result, result')
        IN  /\ d >= 0
            /\ Last(new).t_start = t0 + d
            /\ idle_path(top.action, top.path_2d, result).action.duration = d]_vars

\* two agents have waited, one of them for a time that is not a whole tick
\* after its previous t_end
C22_Witness ==
    /\ stack = <<>>
    /\ \E i, j \in 1..Len(result) :
        /\ i # j
        /\ \E k \in 2..Len(result[i].paths) :
            /\ result[i].paths[k].action.type = "Idle"
            /\ ~IsWhole(result[i].paths[k].action.duration)
        /\ \E k \in 2..Len(result[j].paths) :
            /\ result[j].paths[k].action.type = "Idle"
            /\ result[j].paths[k].action.duration > 0

\* ---------------------------------------------------------------- C23
\* The sample idle_path takes as p1 for the entry e, or None
blocking_sample(action, path_2d, r, e) ==
    LET t0 == Last(agent_paths(action.agent, r)).t_end
    IN  IF e.agent.name # action.agent.name
           /\ \E i \in 1..Len(e.paths) : e.paths[i].t_end >= t0
        THEN last_window(e.agent, action.agent, path_2d[1].end.x,
                         flat_points(skip_while(e.paths, t0)))
        ELSE None

\* The idle of the formula when only the samples at t0 or later are walked
DeltaAfter(A, xi, xf, tau, r) ==
    LET t0 == Last(agent_paths(A, r)).t_end
        later(p) == p.t >= t0
        pts(i) == SelectSeq(SamplesFrom(r[i], t0), later)
        Bs == {i \in 1..Len(r) :
                /\ r[i].agent.name # A.name
                /\ QualifyingPairs(A, xf, r[i].agent, pts(i)) # {}}
        ts == {BlockedUntil(A, xi, xf, tau, r[i].agent, pts(i)) : i \in Bs}
        M == IF Bs = {} THEN t0 ELSE CHOOSE t \in ts : \A u \in ts : u <= t
    IN  Max(Ceil(M), t0) - t0

\* C23 as claimed: the blocking sample p1 of a neighbour is never earlier than
\* the previous t_end of the acting agent, and the idle is the one computed
\* from the samples at t0 or later alone.
C23_SampleWindow ==
    [][Returns =>
        LET top == Last(stack)
            t0 == Last(agent_paths(top.action.agent, result)).t_end
        IN  /\ \A i \in 1..Len(result) :
                LET w == blocking_sample(top.action, top.path_2d, result, result[i])
                IN  w # None => w[1].t >= t0
            /\ idle_path(top.action, top.path_2d, result).action.duration
                  = DeltaAfter(top.action.agent, top.path_2d[1].start.x,
                               top.path_2d[1].end.x, top.path_2d[1].duration,
                               result)]_vars

\* The log without the paths of the other agents that ended before t0
Trimmed(name, t0, r) ==
    LET ends_later(q) == q.t_end >= t0
    IN  [i \in 1..Len(r) |->
            IF r[i].agent.name = name THEN r[i]
            ELSE [r[i] EXCEPT !.paths = SelectSeq(@, ends_later)]]

\* C23 amended: the blocking sample p1 of a neighbour is a sample of one of its
\* paths with t_end >= t0, and the paths that ended before t0 do not change
\* the idle (a path under way at t0 counts with its samples before t0).
C23_PathWindow ==
    [][Returns =>
        LET top == Last(stack)
            t0 == Last(agent_paths(top.action.agent, result)).t_end
        IN  /\ \A i \in 1..Len(result) :
                LET w == blocking_sample(top.action, top.path_2d, result, result[i])
                IN  w # None =>
                      \E k \in 1..Len(result[i].paths) :
                        /\ result[i].paths[k].t_end >= t0
                        /\ \E n \in 1..Len(to_points_st(result[i].paths[k])) :
                              to_points_st(result[i].paths[k])[n] = w[1]
            /\ idle_path(top.action, top.path_2d, result)
                  = idle_path(top.action, top.path_2d,
                              Trimmed(top.action.agent.name, t0, result))]_vars

\* a call is about to commit; a neighbour has a path that ended before t0, and
\* the blocking sample taken from it is earlier than t0
C23_Witness ==
    /\ stack # <<>>
    /\ None \in first_conflict(Last(stack).action.agent, Last(stack).path_2d, result)
    /\ LET top == Last(stack)
           t0 == Last(agent_paths(top.action.agent, result)).t_end
       IN  \E i \in 1..Len(result) :
            LET w == blocking_sample(top.action, top.path_2d, result, result[i])
            IN  /\ w # None
                /\ w[1].t < t0
                /\ \E k \in 2..Len(result[i].paths) : result[i].paths[k].t_end < t0

\* ---------------------------------------------------------------- C24
\* Every Idle after the initial one lasts, and a path that is not Idle follows it
IdlesLast(r) ==
    \A i \in 1..Len(r) : \A k \in 2..Len(r[i].paths) :
        r[i].paths[k].action.type = "Idle" =>
            /\ r[i].paths[k].t_end # r[i].paths[k].t_start
            /\ k < Len(r[i].paths)
            /\ r[i].paths[k + 1].action.type # "Idle"

\* C24: a call appends an Idle path before its requested path iff the idle it
\* computed is not 0; so in every log the only Idle with t_end = t_start is
\* the initial one, and every later Idle is followed at once by a path of the
\* same agent that is not Idle.
C24_ZeroIdleOmitted ==
    [][/\ Returns =>
            LET top == Last(stack)
                new == gained(top.action.agent.name, result, result')
                idle == idle_path(top.action, top.path_2d, result)
            IN  /\ Len(new) >= 1
                /\ Last(new).action = top.action
                /\ idle.action.duration # 0 <=> (Len(new) = 2 /\ new[1] = idle)
                /\ idle.action.duration = 0 <=> Len(new) = 1
       /\ IdlesLast(result')]_vars

\* one agent has waited before a move, and an agent moved twice in a row, the
\* second time later than 0 without waiting
C24_Witness ==
    /\ stack = <<>>
    /\ \E i \in 1..Len(result) : \E k \in 2..(Len(result[i].paths) - 1) :
        /\ result[i].paths[k].action.type = "Idle"
        /\ result[i].paths[k + 1].action.type # "Idle"
    /\ \E i \in 1..Len(result) : \E k \in 2..(Len(result[i].paths) - 1) :
        /\ result[i].paths[k].action.type # "Idle"
        /\ result[i].paths[k + 1].action.type # "Idle"
        /\ result[i].paths[k].t_end > 0

\* ---------------------------------------------------------------- C25
\* d is the time the agent of a needs from p to a's target when both axes move
\* at once: neither axis is overrun, and one of them is exactly used up
Governs(a, p, d) ==
    LET dx == Abs(a.target.x - p.x)
        dy == Abs(a.target.y - p.y)
        v == a.agent.velocity
    IN  /\ d * v.x >= dx * TimeScale
        /\ d * v.y >= dy * TimeScale
        /\ d * v.x = dx * TimeScale \/ d * v.y = dy * TimeScale

\* moves is the one direct segment from p for the action a
Direct(a, p, moves) ==
    /\ Len(moves) = 1
    /\ moves[1].start = p
    /\ moves[1].end = a.target
    /\ Governs(a, p, moves[1].duration)
    /\ moves[1].duration = 0 <=> a.target = p

\* C25: the path every call plans is one segment from the agent's last target
\* to the action's target whose duration is the larger of the two axis times
\* (0 iff the target is the start), and every committed path that is not Idle
\* is such a segment and ends at t_start + that duration + the action's
\* duration.
C25_DirectPath ==
    /\ \A k \in 1..Len(stack) :
        Direct(stack[k].action,
               Last(agent_paths(stack[k].action.agent, stack[k].entry)).action.target,
               stack[k].path_2d)
    /\ \A i \in 1..Len(result) : \A k \in 2..Len(result[i].paths) :
        LET q == result[i].paths[k]
        IN  q.action.type # "Idle" =>
              /\ Direct(q.action, q.moves[1].start, q.moves)
              /\ q.t_end = q.t_start + q.moves[1].duration + q.action.duration

\* committed: a move in x and y on which y is the slower axis, a move on
\* which x is the slower axis, and a move to where the agent already was
C25_Witness ==
    /\ stack = <<>>
    /\ \E i, j, l \in 1..Len(result) :
        /\ \E k \in 2..Len(result[i].paths) :
            LET m == result[i].paths[k].moves
                v == result[i].agent.velocity
            IN  /\ m # <<>>
                /\ m[1].start.x # m[1].end.x
                /\ m[1].duration * v.x > Abs(m[1].end.x - m[1].start.x) * TimeScale
        /\ \E k \in 2..Len(result[j].paths) :
            LET m == result[j].paths[k].moves
                v == result[j].agent.velocity
            IN  /\ m # <<>>
                /\ m[1].duration * v.y > Abs(m[1].end.y - m[1].start.y) * TimeScale
        /\ \E k \in 2..Len(result[l].paths) :
            /\ result[l].paths[k].moves # <<>>
            /\ result[l].paths[k].moves[1].duration = 0

\* ---------------------------------------------------------------- C26
Sample(c, t) == [x |-> c.x, y |-> c.y, t |-> t]

\* The samples the projection is to give for the path P
Projection(P) ==
    IF P.moves = <<>> THEN <<Sample(P.action.target, P.t_end)>>
    ELSE [n \in 1..(Len(P.moves) + 2) |->
            IF n = 1 THEN Sample(P.moves[1].start, P.t_start)
            ELSE IF n = Len(P.moves) + 2 THEN Sample(P.action.target, P.t_end)
            ELSE Sample(P.moves[n - 1].end,
                        P.t_start + SumDurations(SubSeq(P.moves, 1, n - 1)))]

NonDecreasing(pts) == \A n \in 1..(Len(pts) - 1) : pts[n].t <= pts[n + 1].t

\* C26: to_points_st of a committed path is the start of its first move at
\* t_start, the end of each move at the running sum of the durations, and the
\* action's target at t_end (the target at t_end alone for a path without
\* moves); sample times never decrease within a path nor along a route.
C26_TimelineProjection ==
    \A i \in 1..Len(result) :
        /\ \A k \in 1..Len(result[i].paths) :
            /\ to_points_st(result[i].paths[k]) = Projection(result[i].paths[k])
            /\ NonDecreasing(to_points_st(result[i].paths[k]))
        /\ NonDecreasing(flat_points(result[i].paths))

\* a route holds a wait that lasted and a move whose action has a duration
C26_Witness ==
    /\ stack = <<>>
    /\ \E i \in 1..Len(result) :
        /\ \E k \in 2..Len(result[i].paths) :
            /\ result[i].paths[k].moves = <<>>
            /\ result[i].paths[k].t_end > result[i].paths[k].t_start
        /\ \E k \in 2..Len(result[i].paths) :
            /\ result[i].paths[k].moves # <<>>
            /\ result[i].paths[k].moves[1].duration > 0
            /\ result[i].paths[k].action.duration > 0

\* ---------------------------------------------------------------- C27
\* In the log r every two agents rest a safety distance apart, in their order
AtRest(r) ==
    \A i, j \in 1..Len(r) :
        r[i].agent.order < r[j].agent.order =>
            Last(r[j].paths).action.target.x - Last(r[i].paths).action.target.x
                >= Max(r[i].agent.safety_x, r[j].agent.safety_x)

\* C27: whenever a call of execute_action returns, a nested evasion or a
\* schedule action, the last targets of every two agents are in their order
\* and at least the larger of their two safety distances apart.
C27_RestingSeparation ==
    [][Returns => AtRest(result')]_vars

\* an evasion has returned to the loop that asked for it, on three agents of
\* which the evaded one needs a larger safety distance than the requester
C27_Witness ==
    /\ stack # <<>>
    /\ Len(result) = 3
    /\ LET top == Last(stack)
       IN  \E i \in 1..Len(result) :
            /\ result[i].agent.name \in top.touched
            /\ result[i].agent.safety_x > top.action.agent.safety_x
            /\ Last(result[i].paths).action.type = "Evasive"

\* ---------------------------------------------------------------- C28
\* Every Evasive path of the log r has moved its agent in x
EvasionsMove(r) ==
    \A i \in 1..Len(r) : \A k \in 1..Len(r[i].paths) :
        r[i].paths[k].action.type = "Evasive" =>
            r[i].paths[k].moves[1].end.x # r[i].paths[k].moves[1].start.x

\* C28: the Evasive path an evasion commits takes the blocker from where it
\* rested to a strictly smaller x when its order is lower than the
\* requester's and to a strictly greater x when it is higher; no Evasive path
\* of any log keeps its x.
C28_EvasionDirection ==
    [][/\ EvasionReturns =>
            LET caller == stack[Len(stack) - 1]
                ev == Last(stack)
                b == position(ev.action.agent, result)
                path == Last(result'[b].paths)
            IN  /\ path.action.type = "Evasive"
                /\ path.moves[1].start.x = last_x(result[b])
                /\ path.moves[1].end.x = last_x(result'[b])
                /\ ev.action.agent.order < caller.action.agent.order =>
                      last_x(result'[b]) < last_x(result[b])
                /\ ev.action.agent.order > caller.action.agent.order =>
                      last_x(result'[b]) > last_x(result[b])
                /\ ev.action.agent.order # caller.action.agent.order
       /\ EvasionsMove(result')]_vars

\* the schedule has pushed a neighbour of lower order down and a neighbour of
\* higher order up
C28_Witness ==
    /\ stack = <<>>
    /\ \E i, j \in 1..Len(result) :
        /\ result[i].agent.order < result[j].agent.order
        /\ Last(result[i].paths).action.type = "Evasive"
        /\ Last(result[i].paths).moves[1].end.x < Last(result[i].paths).moves[1].start.x
        /\ Last(result[j].paths).action.type = "Evasive"
        /\ Last(result[j].paths).moves[1].end.x > Last(result[j].paths).moves[1].start.x

====
